---- MODULE Spec2Model ----
(***************************************************************************)
(* Brute-force travelling salesman (src/src/main.rs).                      *)
(*                                                                         *)
(* The functions of the program are modelled under four specifications:    *)
(*                                                                         *)
(*   Spec      brute_force / traverse on a symmetric distance matrix       *)
(*   SpecLive  Spec with the progress a sequential program makes           *)
(*   SpecGrid  calculate_edge_grid on a sequence of points                 *)
(*   SpecArith the 16-bit arithmetic of calculate_edge_grid on the points  *)
(*             generate_points(_, MAP_WIDTH) can produce                   *)
(*                                                                         *)
(* Cities, and the indices of Rust vectors, are 0-based as in the source;  *)
(* a vector v is the TLA+ sequence whose element k+1 is v[k].              *)
(*                                                                         *)
(* f32 values are modelled by integers: a distance is a non-negative       *)
(* integer (in SpecGrid a fixed-point number with SqrtScale units per 1.0) *)
(* and every sum of the model is far below 2^24, so f32 addition is exact  *)
(* on them. F32_MAX stands for f32::MAX and NaN for the f32 not-a-number.  *)
(***************************************************************************)
EXTENDS Integers, Sequences, FiniteSets, TLC

\* ------------------------------------------------------------- bounds
MaxN == 4          \* brute_force is run on matrices of 0..MaxN cities

MaxPoints == 3     \* calculate_edge_grid is run on 0..MaxPoints points
SqrtScale == 16    \* fixed-point units per 1.0 of a square root

\* the off-diagonal entries of those matrices: two cities at the same place,
\* or one unit apart
Dists == {0, 1}

\* the points calculate_edge_grid is run on: a 3-4-5 triangle, an inner point
\* and two corners of the configured map
PointSample ==
    { [x |-> 0, y |-> 0], [x |-> 0, y |-> 3], [x |-> 4, y |-> 0],
      [x |-> 1, y |-> 1], [x |-> 99, y |-> 99], [x |-> 0, y |-> 99] }

\* ---------------------------------------------------------- constants
MAP_WIDTH == 100        \* const MAP_WIDTH: u16 = 100
F32_MAX == 2147483647   \* f32::MAX, the sentinel of brute_force: above every sum
NaN == -1               \* the f32 NaN: below every distance, unordered (see F32Lt)

VARIABLES
    pc,       \* where the modelled function is
    grid,     \* Vec<Vec<f32>>: the distance matrix
    stack,    \* the chain of nested traverse calls, outermost first
    ret,      \* <<>> or <<r>>: the value a traverse call has just returned
    result,   \* <<>> or <<v>>: the value brute_force returned
    scored,   \* history: the complete tours scored at the base case, in order
    points,   \* Vec<Point>: the argument of calculate_edge_grid
    build,    \* "debug" (overflow checks on) or "release" (wrapping arithmetic)
    gi, gj,   \* the loop indices i and j of calculate_edge_grid
    computed, \* history: the pairs (i, j) whose distance was computed, in order
    writes,   \* history: how many times each entry of grid was assigned
    ar        \* the i16 locals of one evaluation of lines 108-110

searchVars == <<stack, ret, result, scored>>
gridVars == <<points, build, gi, gj, computed, writes>>
vars == <<pc, grid, searchVars, gridVars, ar>>

\* ------------------------------------------------------------ helpers
At(g, i, j) == g[i + 1][j + 1]

Last(s) == s[Len(s)]

Pop(s) == SubSeq(s, 1, Len(s) - 1)

\* f32 `<`: false whenever an operand is NaN
F32Lt(a, b) == a # NaN /\ b # NaN /\ a < b

\* f32 `+`: NaN is absorbing
F32Add(a, b) == IF a = NaN \/ b = NaN THEN NaN ELSE a + b

\* ------------------------------------------------- brute_force, traverse
\* faulty variant: (0..n).collect(), the anchor city left in pending
Range1_fromZero(n) == [k \in 1..n |-> k - 1]

\* (1..n).collect()
Range1(n) == [k \in 1..(n - 1) |-> k]

\* faulty variant: the filter keeps only the cities after pending[i]
future_available_gt(pending, c) == SelectSeq(pending, LAMBDA x : x > c)

\* pending.iter().filter(|x| **x != pending[i]).collect()
future_available(pending, c) == SelectSeq(pending, LAMBDA x : x # c)

\* faulty variant: the city is put in front of visited
future_visit_front(visited, c) == <<c>> \o visited

\* let mut future_visit = visited.clone(); future_visit.push(pending[i]);
future_visit(visited, c) == Append(visited, c)

\* faulty variant: every branch starts again from the sentinel
ChildMinArg_fresh(min) == F32_MAX

\* the min argument of the recursive call: the caller's current min
ChildMinArg(min) == min

\* faulty variant: the comparison is reversed
Fold_flipped(min, local_min) == IF F32Lt(min, local_min) THEN local_min ELSE min

\* faulty variant: the assignment is not guarded
Fold_overwrite(min, local_min) == local_min

\* if local_min < min { min = local_min }
Fold(min, local_min) == IF F32Lt(local_min, min) THEN local_min ELSE min

\* faulty variant: `for i in 0..n`
LoopEnd_inclusive(nv) == nv

\* the exclusive end of `for i in 0..n - 1`
LoopEnd(nv) == nv - 1

\* usize indices the base case reads that lie outside their vector: a panic
LeafPanics(visited, g) ==
    LET nv == Len(visited)
        InGrid(a, b) == a < Len(g) /\ b < Len(g[a + 1])
    IN  \/ ~InGrid(visited[1], visited[nv])
        \/ \E i \in 0..(LoopEnd(nv) - 1) :
              \/ i + 1 >= nv
              \/ ~InGrid(visited[i + 1], visited[i + 2])

RECURSIVE LoopSum(_, _, _, _, _)
LoopSum(visited, g, i, hi, acc) ==
    IF i >= hi THEN acc
    ELSE LoopSum(visited, g, i + 1, hi,
                 F32Add(acc, At(g, visited[i + 1], visited[i + 2])))

\* faulty variant: the closing edge is left out
total_distance_open(visited, g) == LoopSum(visited, g, 0, LoopEnd(Len(visited)), 0)

\* total_distance of the base case: the closing edge, then the edges in order
total_distance(visited, g) ==
    LET nv == Len(visited)
    IN  LoopSum(visited, g, 0, LoopEnd(nv), At(g, visited[1], visited[nv]))

\* one activation of traverse; min0 and from are history: the min argument
\* and the number of tours scored when the call was entered
Frame(visited, pending, min, from) ==
    [visited |-> visited, pending |-> pending, min |-> min, i |-> 0,
     min0 |-> min, from |-> from]

Returned(val, f) == <<[val |-> val, min0 |-> f.min0, from |-> f.from]>>

Top == Last(stack)

\* let min = traverse(vec![0], (1..n).collect(), f32::MAX, &grid);
brute_force ==
    /\ pc = "brute_force"
    /\ stack' = <<Frame(<<0>>, Range1(Len(grid)), F32_MAX, 0)>>
    /\ pc' = "traverse"
    /\ UNCHANGED <<grid, ret, result, scored, gridVars, ar>>

\* the loop body up to the recursive call
traverse_recurse ==
    /\ pc = "traverse" /\ ret = <<>> /\ stack # <<>>
    /\ Top.pending # <<>>
    /\ Top.i < Len(Top.pending)
    /\ LET c == Top.pending[Top.i + 1]
       IN  stack' = Append(stack,
                       Frame(future_visit(Top.visited, c),
                             future_available(Top.pending, c),
                             ChildMinArg(Top.min), Len(scored)))
    /\ UNCHANGED <<pc, grid, ret, result, scored, gridVars, ar>>

\* the rest of the loop body, once the recursive call has returned
traverse_fold ==
    /\ pc = "traverse" /\ ret # <<>> /\ stack # <<>>
    /\ stack' = [stack EXCEPT ![Len(stack)] =
                    [@ EXCEPT !.min = Fold(@, ret[1].val), !.i = @ + 1]]
    /\ ret' = <<>>
    /\ UNCHANGED <<pc, grid, result, scored, gridVars, ar>>

\* the loop is over: `min` is the value of the call
traverse_return ==
    /\ pc = "traverse" /\ ret = <<>> /\ stack # <<>>
    /\ Top.pending # <<>>
    /\ Top.i >= Len(Top.pending)
    /\ ret' = Returned(Top.min, Top)
    /\ stack' = Pop(stack)
    /\ UNCHANGED <<pc, grid, result, scored, gridVars, ar>>

\* the base case: pending is empty, visited is scored
traverse_leaf ==
    /\ pc = "traverse" /\ ret = <<>> /\ stack # <<>>
    /\ Top.pending = <<>>
    /\ UNCHANGED <<gridVars, ar>>
    /\ IF LeafPanics(Top.visited, grid)
       THEN /\ pc' = "panic"
            /\ UNCHANGED <<grid, stack, ret, result, scored>>
       ELSE LET total == total_distance(Top.visited, grid)
                min == Fold(Top.min, total)
            IN  /\ ret' = Returned(min, Top)
                /\ stack' = Pop(stack)
                /\ scored' = Append(scored,
                                [tour |-> Top.visited, len |-> total,
                                 minIn |-> Top.min, minOut |-> min])
                /\ UNCHANGED <<pc, grid, result>>

\* brute_force returns the value of the outermost call
brute_force_return ==
    /\ pc = "traverse" /\ ret # <<>> /\ stack = <<>>
    /\ result' = <<ret[1].val>>
    /\ ret' = <<>>
    /\ pc' = "done"
    /\ UNCHANGED <<grid, stack, scored, gridVars, ar>>

\* ------------------------------------------------- calculate_edge_grid
\* gen_range(0..width): the coordinates generate_points draws
GenRange(width) == 0..(width - 1)

InI16(v) == -32768 <= v /\ v <= 32767

\* the i16 that a wrapping operation yields for the exact result v
Wrap16(v) == ((v + 32768) % 65536) - 32768

\* `u as i16` of a u16
ToI16(u) == Wrap16(u)

\* an i16 operation whose exact result is v: the value a release build keeps,
\* and whether a debug build panics on it
Checked(v) == [val |-> Wrap16(v), overflow |-> ~InI16(v)]

\* faulty variant: (points[i].x - points[j].x) as i16, the subtraction in u16
Sub_unsigned(ui, uj) == [val |-> Wrap16(ui - uj), overflow |-> ui < uj]

\* points[i].x as i16 - points[j].x as i16 (and the same of y)
Sub(ui, uj) == Checked(ToI16(ui) - ToI16(uj))

\* dx * dx + dy * dy
SumOfSquares(dx, dy) ==
    LET xx == Checked(dx * dx)
        yy == Checked(dy * dy)
        sum == Checked(xx.val + yy.val)
    IN  [xx |-> xx.val, yy |-> yy.val, val |-> sum.val,
         overflow |-> xx.overflow \/ yy.overflow \/ sum.overflow]

RECURSIVE ISqrtIn(_, _, _)
ISqrtIn(x, lo, hi) ==
    IF lo >= hi THEN lo
    ELSE LET mid == (lo + hi + 1) \div 2
         IN  IF mid * mid <= x THEN ISqrtIn(x, mid, hi) ELSE ISqrtIn(x, lo, mid - 1)

\* (v as f32).sqrt() of an i16 v: NaN below zero, else the root in fixed point
F32Sqrt(v) ==
    IF v < 0 THEN NaN ELSE ISqrtIn(v * SqrtScale * SqrtScale, 0, 182 * SqrtScale)

\* vec![vec![0 as f32; n]; n]
ZeroGrid(k) == [a \in 1..k |-> [b \in 1..k |-> 0]]

\* grid[i][j] = v, on the matrix m.g and the count m.w of its assignments
Store(m, i, j, v) ==
    [g |-> [m.g EXCEPT ![i + 1][j + 1] = v],
     w |-> [m.w EXCEPT ![i + 1][j + 1] = @ + 1]]

\* faulty variant: the mirrored entry is not assigned
Mirror_skip(m, i, j) == m

\* grid[j][i] = grid[i][j];
Mirror(m, i, j) == Store(m, j, i, At(m.g, i, j))

\* let n = points.len(); let mut grid = vec![vec![0 as f32; n]; n];
calculate_edge_grid_alloc ==
    /\ pc = "calculate_edge_grid"
    /\ grid' = ZeroGrid(Len(points))
    /\ writes' = ZeroGrid(Len(points))
    /\ gi' = 0
    /\ gj' = 1
    /\ pc' = "grid_loop"
    /\ UNCHANGED <<points, build, computed, searchVars, ar>>

\* one pass of the inner loop: lines 108-111
calculate_edge_grid_pair ==
    /\ pc = "grid_loop"
    /\ gi < Len(points) /\ gj < Len(points)
    /\ LET dx == Sub(points[gi + 1].x, points[gj + 1].x)
           dy == Sub(points[gi + 1].y, points[gj + 1].y)
           sq == SumOfSquares(dx.val, dy.val)
           m == Mirror(Store([g |-> grid, w |-> writes], gi, gj, F32Sqrt(sq.val)),
                       gi, gj)
       IN  IF (dx.overflow \/ dy.overflow \/ sq.overflow) /\ build = "debug"
           THEN /\ pc' = "panic"
                /\ UNCHANGED <<grid, gj, computed, writes>>
           ELSE /\ grid' = m.g
                /\ writes' = m.w
                /\ computed' = Append(computed, <<gi, gj>>)
                /\ gj' = gj + 1
                /\ pc' = pc
    /\ UNCHANGED <<points, build, gi, searchVars, ar>>

\* the inner loop is over: the outer loop goes to its next i
calculate_edge_grid_row ==
    /\ pc = "grid_loop"
    /\ gi < Len(points) /\ gj >= Len(points)
    /\ gi' = gi + 1
    /\ gj' = gi + 2
    /\ UNCHANGED <<pc, grid, points, build, computed, writes, searchVars, ar>>

\* the outer loop is over: grid is returned
calculate_edge_grid_return ==
    /\ pc = "grid_loop"
    /\ gi >= Len(points)
    /\ pc' = "grid_done"
    /\ UNCHANGED <<grid, gridVars, searchVars, ar>>

\* ------------------------------- lines 108-110 on the generated points
\* ux and uy are history: the exact differences of the u16 coordinates
ArIdle == [pc |-> "dx", ux |-> 0, uy |-> 0, dx |-> 0, dy |-> 0,
           xx |-> 0, yy |-> 0, sum |-> 0, overflow |-> FALSE]

\* let dx = points[i].x as i16 - points[j].x as i16;
ArithDx ==
    /\ pc = "arith" /\ ar.pc = "dx"
    /\ \E xi, xj \in GenRange(MAP_WIDTH) :
          LET dx == Sub(xi, xj)
          IN  ar' = [ar EXCEPT !.pc = "dy", !.ux = xi - xj, !.dx = dx.val,
                               !.overflow = dx.overflow]
    /\ UNCHANGED <<pc, grid, gridVars, searchVars>>

\* let dy = points[i].y as i16 - points[j].y as i16;
ArithDy ==
    /\ pc = "arith" /\ ar.pc = "dy"
    /\ \E yi, yj \in GenRange(MAP_WIDTH) :
          LET dy == Sub(yi, yj)
          IN  ar' = [ar EXCEPT !.pc = "sum", !.uy = yi - yj, !.dy = dy.val,
                               !.overflow = @ \/ dy.overflow]
    /\ UNCHANGED <<pc, grid, gridVars, searchVars>>

\* dx * dx + dy * dy
ArithSum ==
    /\ pc = "arith" /\ ar.pc = "sum"
    /\ LET sq == SumOfSquares(ar.dx, ar.dy)
       IN  ar' = [ar EXCEPT !.pc = "done", !.xx = sq.xx, !.yy = sq.yy,
                            !.sum = sq.val, !.overflow = @ \/ sq.overflow]
    /\ UNCHANGED <<pc, grid, gridVars, searchVars>>

\* ------------------------------------------------------ specification
Cities(n) == 0..(n - 1)

Pairs(n) == {p \in Cities(n) \X Cities(n) : p[1] < p[2]}

\* the symmetric n x n matrix with zero diagonal whose entry (a, b), a < b, is w[a, b]
SymGrid(n, w) ==
    [a \in 1..n |-> [b \in 1..n |->
        IF a = b THEN 0
        ELSE IF a < b THEN w[<<a - 1, b - 1>>] ELSE w[<<b - 1, a - 1>>]]]

Init ==
    /\ pc = "brute_force"
    /\ \E n \in 0..MaxN : \E w \in [Pairs(n) -> Dists] : grid = SymGrid(n, w)
    /\ stack = <<>>
    /\ ret = <<>>
    /\ result = <<>>
    /\ scored = <<>>
    /\ points = <<>> /\ build = "release" /\ gi = 0 /\ gj = 0
    /\ computed = <<>> /\ writes = <<>>
    /\ ar = ArIdle

Next ==
    \/ brute_force
    \/ traverse_recurse
    \/ traverse_fold
    \/ traverse_return
    \/ traverse_leaf
    \/ brute_force_return

Spec == Init /\ [][Next]_vars

\* the program is sequential: a step that can be taken is taken
SpecLive == Spec /\ WF_vars(Next)

\* the points of the sample that generate_points(_, MAP_WIDTH) can return
generate_points ==
    {p \in PointSample : p.x \in GenRange(MAP_WIDTH) /\ p.y \in GenRange(MAP_WIDTH)}

InitGrid ==
    /\ pc = "calculate_edge_grid"
    /\ \E k \in 0..MaxPoints : points \in [1..k -> generate_points]
    /\ build \in {"debug", "release"}
    /\ grid = <<>> /\ gi = 0 /\ gj = 0
    /\ computed = <<>> /\ writes = <<>>
    /\ stack = <<>> /\ ret = <<>> /\ result = <<>> /\ scored = <<>>
    /\ ar = ArIdle

NextGrid ==
    \/ calculate_edge_grid_alloc
    \/ calculate_edge_grid_pair
    \/ calculate_edge_grid_row
    \/ calculate_edge_grid_return

SpecGrid == InitGrid /\ [][NextGrid]_vars

InitArith ==
    /\ pc = "arith"
    /\ ar = ArIdle
    /\ grid = <<>> /\ points = <<>> /\ build = "release" /\ gi = 0 /\ gj = 0
    /\ computed = <<>> /\ writes = <<>>
    /\ stack = <<>> /\ ret = <<>> /\ result = <<>> /\ scored = <<>>

NextArith ==
    \/ ArithDx
    \/ ArithDy
    \/ ArithSum

SpecArith == InitArith /\ [][NextArith]_vars

\* ---------------------------------------------- vocabulary of the claims
n == Len(grid)

Done == pc = "done"

Injective(p) == \A a, b \in DOMAIN p : a # b => p[a] # p[b]

\* the orderings of the cities 0..k-1 that start at city 0
Tours0 == [k \in 0..MaxN |->
              {p \in [1..k -> Cities(k)] : Injective(p) /\ (k > 0 => p[1] = 0)}]

RECURSIVE Factorial(_)
Factorial(k) == IF k <= 0 THEN 1 ELSE k * Factorial(k - 1)

RECURSIVE PathLength(_, _)
PathLength(p, k) ==
    IF k >= Len(p) THEN 0 ELSE At(grid, p[k], p[k + 1]) + PathLength(p, k + 1)

\* the n-1 consecutive edges of p, plus the edge from its last city back to city 0
ClosedTourLength(p) == PathLength(p, 1) + At(grid, p[Len(p)], 0)

MinOf(S) == CHOOSE x \in S : \A y \in S : x <= y

ScoredTours == {scored[k].tour : k \in 1..Len(scored)}

ScoredLens(lo, hi) == {scored[k].len : k \in lo..hi}

\* (C1) For n >= 1, brute_force returns exactly the minimum closed-tour
\* length over all orderings of the cities that start at city 0.
C1_ReturnsMinimum ==
    (Done /\ n >= 1) =>
        result = <<MinOf({ClosedTourLength(p) : p \in Tours0[n]})>>

C1_Witness ==
    /\ Done /\ n = MaxN
    /\ \E p, q \in Tours0[n] : ClosedTourLength(p) < ClosedTourLength(q)
    /\ scored[1].len # result[1]

C3_Bounded ==
    (n >= 1) =>
        /\ Len(stack) <= n
        /\ \A k \in 1..Len(stack) : Len(stack[k].visited) = k
        /\ pc # "panic"
        /\ Done => /\ result # <<F32_MAX>>
                   /\ \E p \in Tours0[n] : result = <<ClosedTourLength(p)>>

\* (C3) For n >= 1 the search started by brute_force terminates, within depth
\* n, with the length of some complete tour and never with f32::MAX.
C3_Terminates == []C3_Bounded /\ ((n >= 1) ~> Done)

C3_Witness == Done /\ n = MaxN /\ result[1] < F32_MAX /\ Len(scored) > 1

\* the running minimum: the value in flight from a call that has just
\* returned, else the min of the innermost call
RunMin(st, r) == IF r # <<>> THEN r[1].val ELSE Last(st).min

C4_Step ==
    /\ ((stack # <<>> \/ ret # <<>>) /\ (stack' # <<>> \/ ret' # <<>>)) =>
            RunMin(stack', ret') <= RunMin(stack, ret)
    /\ \A k \in 1..Len(stack) :
          k <= Len(stack') =>
              /\ stack'[k].min <= stack[k].min
              /\ stack'[k].min # stack[k].min =>
                    /\ ret # <<>> /\ k = Len(stack)
                    /\ ret[1].val < stack[k].min
                    /\ stack'[k].min = ret[1].val
    /\ Len(scored') = Len(scored) + 1 =>
          LET t == ClosedTourLength(Top.visited)
          IN  /\ t < Top.min => ret'[1].val = t
              /\ t >= Top.min => ret'[1].val = Top.min

\* (C4) The running minimum never increases: the min of a call changes only
\* when a child returns a strictly smaller value, a scored tour strictly
\* shorter than the current minimum replaces it, and a tour of equal length
\* leaves it unchanged.
C4_Monotone == [][C4_Step]_vars

\* a tour has tied with the current minimum, after a strictly shorter tour
\* had replaced an earlier minimum
C4_Witness ==
    /\ \E k \in 2..Len(scored) :
          scored[k].len = scored[k].minIn /\ scored[k].minOut = scored[k].minIn
    /\ \E k \in 2..Len(scored) : scored[k].len < scored[k].minIn

\* (C6) For a single city brute_force scores exactly one tour, [0], and
\* returns 0; it reads no index outside the matrix and makes no recursive
\* call.
C6_SingleCity ==
    (n = 1) =>
        /\ pc # "panic"
        /\ Len(stack) <= 1
        /\ Len(scored) <= 1
        /\ Done => /\ result = <<0>>
                   /\ Len(scored) = 1
                   /\ scored[1].tour = <<0>> /\ scored[1].len = 0

C6_Witness == Done /\ n = 1 /\ Len(scored) = 1

Perms == [k \in 0..MaxN |-> {p \in [1..k -> Cities(k)] : Injective(p)}]

\* p turned so that it starts at its position k
Rotate(p, k) == [a \in 1..Len(p) |-> p[((a + k - 2) % Len(p)) + 1]]

Reverse(p) == [a \in 1..Len(p) |-> p[Len(p) + 1 - a]]

IsRotation(p, q) == \E k \in 1..Len(p) : q = Rotate(p, k)

\* the same cyclic tour up to rotation or reversal
SameTour(p, q) == IsRotation(p, q) \/ IsRotation(Reverse(p), q)

\* (C8), as stated: no two scored tours are the same cyclic tour up to
\* rotation or reversal, and every cyclic tour is scored.
C8_Original ==
    (Done /\ n >= 1) =>
        /\ \A a, b \in 1..Len(scored) :
              a # b => ~SameTour(scored[a].tour, scored[b].tour)
        /\ \A p \in Perms[n] : \E a \in 1..Len(scored) : SameTour(p, scored[a].tour)

\* (C8), amended: the search accounts for rotation only. No two scored tours
\* are rotations of one another and every ordering of the cities is a
\* rotation of a scored tour; a tour and its reversal are both scored, so for
\* n >= 3 every tour up to rotation and reversal is scored exactly twice.
C8_Amended ==
    (Done /\ n >= 1) =>
        /\ \A a, b \in 1..Len(scored) :
              a # b => ~IsRotation(scored[a].tour, scored[b].tour)
        /\ \A p \in Perms[n] : \E a \in 1..Len(scored) : IsRotation(p, scored[a].tour)
        /\ \A a \in 1..Len(scored) :
              Cardinality({b \in 1..Len(scored) :
                              SameTour(scored[a].tour, scored[b].tour)})
                = IF n >= 3 THEN 2 ELSE 1

C8_Witness ==
    /\ Done /\ n = MaxN
    /\ \E a, b \in 1..Len(scored) :
          a # b /\ scored[b].tour = Rotate(Reverse(scored[a].tour), n)

Range(s) == {s[k] : k \in 1..Len(s)}

RemoveAt(s, j) == [k \in 1..(Len(s) - 1) |-> IF k < j THEN s[k] ELSE s[k + 1]]

\* (C9) At every call of traverse, for n >= 1: visited is non-empty and
\* starts with city 0, visited and pending hold no duplicates, are disjoint,
\* together hold exactly 0..n-1; a child call moves exactly one city from
\* pending to the end of visited and keeps the order of the others.
C9_CallArguments ==
    (n >= 1) =>
        /\ \A k \in 1..Len(stack) :
              LET f == stack[k]
              IN  /\ f.visited # <<>> /\ f.visited[1] = 0
                  /\ Injective(f.visited) /\ Injective(f.pending)
                  /\ Range(f.visited) \cap Range(f.pending) = {}
                  /\ Range(f.visited) \cup Range(f.pending) = Cities(n)
                  /\ Len(f.visited) + Len(f.pending) = n
        /\ \A k \in 1..(Len(stack) - 1) :
              LET parent == stack[k]
                  child == stack[k + 1]
              IN  /\ parent.i < Len(parent.pending)
                  /\ child.visited =
                        parent.visited \o <<parent.pending[parent.i + 1]>>
                  /\ child.pending = RemoveAt(parent.pending, parent.i + 1)

C9_Witness ==
    /\ n = MaxN /\ Len(stack) = MaxN
    /\ stack[2].visited # <<0, 1>>
    /\ stack[2].pending # <<>>

\* the smaller of m and the lengths of the tours scored lo-th to hi-th
MinWith(m, lo, hi) == MinOf({m} \cup ScoredLens(lo, hi))

\* (C10) The min argument of every call is the smaller of the sentinel and
\* the lengths of all tours scored before the call was entered, in whatever
\* branch; the value a call returns is the smaller of its min argument and
\* the lengths of the tours scored in its own subtree.
C10_Propagation ==
    /\ \A k \in 1..Len(stack) :
          stack[k].min0 = MinWith(F32_MAX, 1, stack[k].from)
    /\ (stack # <<>> /\ ret = <<>> /\ Top.i = 0) =>
          Top.from = Len(scored) /\ Top.min = Top.min0
    /\ ret # <<>> =>
          ret[1].val = MinWith(ret[1].min0, ret[1].from + 1, Len(scored))

\* a call entered after tours had been scored in another branch has returned
\* a value smaller than its min argument
C10_Witness ==
    /\ ret # <<>>
    /\ ret[1].from > 0
    /\ ret[1].min0 < F32_MAX
    /\ ret[1].val < ret[1].min0

F32Eq(a, b) == a # NaN /\ b # NaN /\ a = b

F32Ge(a, b) == a # NaN /\ b # NaN /\ a >= b

\* (C5) The matrix calculate_edge_grid returns for n points is n x n, has a
\* zero diagonal, is symmetric and non-negative; the distance of each pair
\* i < j is computed exactly once and assigned to (i, j) and to (j, i), once
\* each, and no other entry is assigned.
C5_GridShape ==
    /\ pc # "panic"
    /\ pc = "grid_done" =>
          LET k == Len(points)
          IN  /\ Len(grid) = k
              /\ \A a \in 1..k : Len(grid[a]) = k
              /\ \A i \in Cities(k) : F32Eq(At(grid, i, i), 0) /\ At(writes, i, i) = 0
              /\ \A i, j \in Cities(k) :
                    /\ F32Eq(At(grid, i, j), At(grid, j, i))
                    /\ F32Ge(At(grid, i, j), 0)
                    /\ i # j => At(writes, i, j) = 1
              /\ Len(computed) = Cardinality(Pairs(k))
              /\ Range(computed) = Pairs(k)

C5_Witness ==
    /\ pc = "grid_done" /\ Len(points) = MaxPoints
    /\ points[1] = [x |-> 0, y |-> 0] /\ points[2] = [x |-> 99, y |-> 99]
    /\ At(grid, 1, 0) > 139 * SqrtScale
    /\ At(grid, 2, 1) > 0

\* (C7) With coordinates in 0..MAP_WIDTH-1 and MAP_WIDTH = 100 the i16
\* arithmetic never overflows: the casts keep the coordinates, and dx, dy,
\* dx*dx, dy*dy and their sum are the exact values, all within i16.
C7_NoOverflow ==
    /\ \A c \in GenRange(MAP_WIDTH) : ToI16(c) = c
    /\ ~ar.overflow
    /\ ar.pc \in {"dy", "sum", "done"} => ar.dx = ar.ux /\ InI16(ar.ux)
    /\ ar.pc \in {"sum", "done"} => ar.dy = ar.uy /\ InI16(ar.uy)
    /\ ar.pc = "done" =>
          /\ ar.xx = ar.ux * ar.ux /\ InI16(ar.ux * ar.ux)
          /\ ar.yy = ar.uy * ar.uy /\ InI16(ar.uy * ar.uy)
          /\ ar.sum = ar.ux * ar.ux + ar.uy * ar.uy
          /\ InI16(ar.ux * ar.ux + ar.uy * ar.uy)

\* the two farthest points of the map: the largest sum
C7_Witness ==
    /\ ar.pc = "done"
    /\ ar.ux = -(MAP_WIDTH - 1) /\ ar.uy = MAP_WIDTH - 1
    /\ ar.sum = 2 * (MAP_WIDTH - 1) * (MAP_WIDTH - 1)

====
